---- MODULE Spec2Model ----
(***************************************************************************)
(* Model of fouriever/intercorr.py: class data, whose methods add_vis2cov, *)
(* add_t3cov and add_cov attach covariance stacks (VIS2COV, T3COV) to      *)
(* copies of the input fits files.                                         *)
(*                                                                         *)
(* Numbers.  Python floats are modelled as exact rationals <<n, d>> in     *)
(* lowest terms with d > 0; floating-point rounding is not modelled.       *)
(* Uncertainties and incidence coefficients are integers.                  *)
(* Arrays.  A 2-D numpy array is [shape |-> <<r, c>>, v |-> rows], rows    *)
(* being a function 1..r -> (1..c -> number).  Python's index a is a + 1   *)
(* here.  A flattened (1-D) array is a sequence.                           *)
(***************************************************************************)
EXTENDS Integers, Sequences, FiniteSets, TLC

(* ------------------------------ bounds --------------------------------- *)
MaxWave == 2
MaxBase == 5
MaxTria == 2
MaxExp == 2
MaxFiles == 2
MaxHdus == 2

(* ----------------------------- rationals ------------------------------- *)
Abs(x) == IF x < 0 THEN -x ELSE x

RECURSIVE Gcd(_, _)
Gcd(a, b) == IF b = 0 THEN a ELSE Gcd(b, a % b)

\* The rational n/d (d # 0) in lowest terms with a positive denominator.
Frac(n, d) ==
  LET g == Gcd(Abs(n), Abs(d))
      s == IF d < 0 THEN -1 ELSE 1
  IN  <<(s * n) \div g, (s * d) \div g>>

RInt(n) == <<n, 1>>

\* q * k for a rational q and an integer k.
RScale(q, k) == Frac(q[1] * k, q[2])

(* ------------------------------ arrays --------------------------------- *)
\* The function f over 1..n as the tuple of its values.
Tup(f) == f \o <<>>

\* The r x c array whose entry (a, b) is f[a, b], its rows as tuples.
Arr(r, c, f) ==
  [shape |-> <<r, c>>,
   v |-> Tup([a \in 1..r |-> Tup([b \in 1..c |-> f[a, b]])])]

NRows(A) == A.shape[1]

NCols(A) == A.shape[2]

\* np.zeros((r, c))
np_zeros(r, c) == Arr(r, c, [a, b \in Nat |-> 0])

\* np.diag(np.ones(n)): the n x n identity.
np_diag_ones(n) == Arr(n, n, [a, b \in Nat |-> IF a = b THEN 1 ELSE 0])

\* A.T
Transpose(A) == Arr(NCols(A), NRows(A), [a, b \in Nat |-> A.v[b][a]])

RECURSIVE DotSum(_, _, _, _, _)
\* sum over l in 1..n of A[a][l] * B[l][b]
DotSum(A, B, a, b, n) ==
  IF n = 0 THEN 0 ELSE DotSum(A, B, a, b, n - 1) + A.v[a][n] * B.v[n][b]

\* np.dot(A, B) for 2-D integer arrays with NCols(A) = NRows(B).
np_dot(A, B) ==
  Arr(NRows(A), NCols(B),
      [a, b \in Nat |-> DotSum(A, B, a, b, NCols(A))])

\* A / d : every entry divided by the number d.
DivScalar(A, d) ==
  Arr(NRows(A), NCols(A), [a, b \in Nat |-> Frac(A.v[a][b], d)])

\* An integer array read as floats.
ToFloat(A) ==
  Arr(NRows(A), NCols(A), [a, b \in Nat |-> RInt(A.v[a][b])])

\* A.flatten(): the rows of A one after the other (C order).
flatten(A) ==
  Tup([n \in 1..(NRows(A) * NCols(A)) |->
         A.v[((n - 1) \div NCols(A)) + 1][((n - 1) % NCols(A)) + 1]])

\* u[:, None] * u[None, :] for a flattened array u.
Outer(u) == Arr(Len(u), Len(u), [a, b \in Nat |-> u[a] * u[b]])

\* numpy's broadcast of two axis lengths; -1 when they cannot be broadcast.
BroadcastDim(n, m) ==
  IF n = m THEN n ELSE IF m = 1 THEN n ELSE IF n = 1 THEN m ELSE -1

\* The index at which an axis of length n is read for the output index a.
BIdx(n, a) == IF n = 1 THEN 1 ELSE a

\* What np_multiply gives when numpy raises ValueError.
ValueError == [shape |-> <<-1, -1>>, v |-> <<>>]

\* np.multiply(C, O) of a float array C and an integer array O, with
\* numpy's broadcasting; ValueError when the shapes cannot be broadcast.
np_multiply(C, O) ==
  LET r == BroadcastDim(NRows(C), NRows(O))
      c == BroadcastDim(NCols(C), NCols(O))
  IN  IF r < 0 \/ c < 0 THEN ValueError
      ELSE Arr(r, c, [a, b \in Nat |->
                 RScale(C.v[BIdx(NRows(C), a)][BIdx(NCols(C), b)],
                        O.v[BIdx(NRows(O), a)][BIdx(NCols(O), b)])])

(* --------------------- add_t3cov's correlation ------------------------- *)
\* SetBlock with np.ones((Nwave, Nwave)) in the place of
\* np.diag(np.ones(Nwave)).
SetBlockOnes(M, k, l, nw, t) ==
  Arr(NRows(M), NCols(M), [a, b \in Nat |->
        IF /\ a \in (k * nw + 1)..((k + 1) * nw)
           /\ b \in (l * nw + 1)..((l + 1) * nw)
        THEN t
        ELSE M.v[a][b]])

\* trafo[k*Nwave:(k+1)*Nwave, l*Nwave:(l+1)*Nwave] = np.diag(np.ones(Nwave))*t
\* for Python's k, l (0-based).
SetBlock(M, k, l, nw, t) ==
  Arr(NRows(M), NCols(M), [a, b \in Nat |->
        IF /\ a \in (k * nw + 1)..((k + 1) * nw)
           /\ b \in (l * nw + 1)..((l + 1) * nw)
        THEN np_diag_ones(nw).v[a - k * nw][b - l * nw] * t
        ELSE M.v[a][b]])

RECURSIVE FillBlocks(_, _, _, _)
\* The state of trafo after the first n passes of the double loop over
\* k in range(Ntria), l in range(Nbase) (l is the inner loop).
FillBlocks(M, t3m, nw, n) ==
  IF n = 0 THEN M
  ELSE LET k == (n - 1) \div NCols(t3m)
           l == (n - 1) % NCols(t3m)
       IN  SetBlock(FillBlocks(M, t3m, nw, n - 1), k, l, nw,
                    t3m.v[k + 1][l + 1])

\* The transform of add_t3cov: zeros, then one block per (k, l).
BuildTrafo(t3m, nw) ==
  FillBlocks(np_zeros(nw * NRows(t3m), nw * NCols(t3m)), t3m, nw,
             NRows(t3m) * NCols(t3m))

\* 3 is the normalisation add_t3cov divides by.
T3Norm == 3

\* T3Cor without the division by 3.
T3CorNoNorm(tr, nw, nb) ==
  ToFloat(np_dot(tr, np_dot(np_diag_ones(nw * nb), Transpose(tr))))

\* cor = np.dot(trafo, np.dot(np.diag(np.ones(Nwave*Nbase)), trafo.T))/3.
T3Cor(tr, nw, nb) ==
  DivScalar(np_dot(tr, np_dot(np_diag_ones(nw * nb), Transpose(tr))), T3Norm)

\* Vis2Cor with np.ones((N, N)) in the place of np.diag(np.ones(N)).
Vis2CorOnes(nw, nb) ==
  ToFloat(Arr(nw * nb, nw * nb, [a, b \in Nat |-> 1]))

\* cor = np.diag(np.ones(Nwave*Nbase))
Vis2Cor(nw, nb) == ToFloat(np_diag_ones(nw * nb))

\* ExposureCov with the factor u.flatten()[None, :] left out.
ExposureCovColumn(c, u) ==
  np_multiply(c, Arr(Len(flatten(u)), 1, [a, b \in Nat |-> flatten(u)[a]]))

\* cov = np.multiply(cor, u.flatten()[:, None]*u.flatten()[None, :])
ExposureCov(c, u) == np_multiply(c, Outer(flatten(u)))

\* np.array(covs) followed by pyfits.ImageHDU succeeds only when all the
\* matrices of the list have one shape; otherwise one of the two raises
\* (which of them depends on the numpy version), before anything is written.
Stackable(cs) == \A n \in 1..Len(cs) : cs[n].shape = cs[1].shape

(* ------------------------------- state --------------------------------- *)
VARIABLES
  idir,        \* self.idir
  fitsfiles,   \* self.fitsfiles; a file name is modelled by a number
  inst_list,   \* self.inst_list
  data_list,   \* self.data_list; data_list[n] is a list of exposures
  inst,        \* self.inst
  from_list,   \* history: from_list[n] is the file data_list[n] was opened from
  disk,        \* the file system: disk[dir][file] = [exists, hdus]
  call,        \* the method the caller invoked, "none" between calls
  pc,          \* the position of the running call
  odir,        \* the running call's argument
  sel,         \* the local data_list of add_vis2cov / add_t3cov
  sel_from,    \* history: the files the entries of sel were opened from
  i, j,        \* the loop indices (1-based)
  Nwave, Nbase, Ntria, t3mat, trafo, cor, covs,   \* locals of the file loop
  temp,        \* add_cov's local
  err,         \* the exception the last call raised, "none" if it returned
  written,     \* history: the files the current or last call has written
  idir0        \* history: self.idir when the current or last call began

object == <<fitsfiles, inst_list, data_list, from_list>>

locals == <<odir, sel, sel_from, i, j, Nwave, Nbase, Ntria, t3mat, trafo,
            cor, covs, temp>>

fileloop == <<Nwave, Nbase, Ntria, t3mat, trafo, cor, covs, j>>

vars == <<idir, inst, object, disk, call, pc, locals, err, written, idir0>>

Dirs == {"in/", "out/"}

Instruments == {"A", "B"}

NoArr == np_zeros(0, 0)

NoFile == [exists |-> FALSE, hdus |-> <<>>]

(* --------------------------- input domains ----------------------------- *)
\* r x c arrays of uncertainties.  "ramp": the values 1, 2, ... in C order;
\* "signed": the values 1, -1, 0 repeating; both scaled by s.
Ramp(r, c, s) == Arr(r, c, [a, b \in Nat |-> s * ((a - 1) * c + b)])

Signed(r, c, s) ==
  Arr(r, c, [a, b \in Nat |-> s * ((((a - 1) * c + b) % 3) - 1)])

\* An uncertainty array for a file whose arrays should have shape (r, c):
\* of that shape ("ramp", "signed"), of shape (1, 1) ("short") or with one
\* row too many ("extra").
Families == {"ramp", "signed", "short", "extra"}

UArray(fam, r, c, s) ==
  CASE fam = "ramp" -> Ramp(r, c, s)
    [] fam = "signed" -> Signed(r, c, s)
    [] fam = "short" -> Ramp(1, 1, s + 1)
    [] fam = "extra" -> Ramp(r + 1, c, s)

\* One exposure as inst.open returns it; 'wave' and 'vis2' are modelled by
\* their shape[0].
Exposure(nw, t3m, fv, ft, s) ==
  [wave |-> nw, vis2 |-> NCols(t3m), t3mat |-> t3m,
   dvis2 |-> UArray(fv, NCols(t3m), nw, s),
   dt3 |-> UArray(ft, NRows(t3m), nw, s)]

\* The exposures of one data set: exposure n has the families fv[n] (dvis2)
\* and ft[n] (dt3) and the scale n, so that no two exposures are equal.
ExposureList(nw, t3m, fv, ft) ==
  [n \in 1..Len(fv) |-> Exposure(nw, t3m, fv[n], ft[n], n)]

\* Rows of an incidence matrix over nb baselines: the baselines of S carry
\* +1 ("plus"), +1 and -1 in turn ("alt") or 2 ("double"), the others 0.
Row(nb, S, pat) ==
  [l \in 1..nb |->
     IF l \notin S THEN 0
     ELSE CASE pat = "plus" -> 1
            [] pat = "double" -> 2
            [] pat = "alt" ->
                 IF Cardinality({x \in S : x <= l}) % 2 = 1 THEN 1 ELSE -1]

BaseRows(nb) ==
  {Row(nb, S, "plus") : S \in {T \in SUBSET (1..nb) : Cardinality(T) <= 3}}
  \cup {Row(nb, S, "alt") : S \in {T \in SUBSET (1..nb) : Cardinality(T) = 3}}
  \cup {Row(nb, {l}, "double") : l \in 1..nb}

\* The row r rotated s places to the right.
Rot(r, s) == [l \in 1..Len(r) |-> r[((l - 1 - s) % Len(r)) + 1]]

\* The incidence matrices of the geometry runs: nt rows over nb baselines,
\* row k being a base row rotated (k - 1) * s places.
T3Mats ==
  UNION {{[shape |-> <<nt, nb>>,
           v |-> [k \in 1..nt |-> Rot(base, (k - 1) * s)]] :
            <<nt, base, s>> \in (0..MaxTria) \X BaseRows(nb) \X (0..nb)} :
         nb \in 0..MaxBase}

\* A closure triangle over three baselines, the two rows of the spec's
\* second scenario, and a single baseline of a single triangle.
Closure3 == [shape |-> <<1, 3>>, v |-> <<<<1, -1, 1>>>>]

TwoRows == [shape |-> <<2, 4>>, v |-> <<<<1, 1, 1, 0>>, <<1, 0, 0, 1>>>>]

Single == [shape |-> <<1, 1>>, v |-> <<<<1>>>>]

\* What inst.open returns for one file: the instruments found in it and,
\* for each, the list of its exposures.
Opened(insts, exps) ==
  [inst_list |-> insts, data_list |-> [n \in 1..Len(insts) |-> exps]]

RECURSIVE ConcatInst(_, _)
\* self.inst_list after the first n files have been opened.
ConcatInst(op, n) ==
  IF n = 0 THEN <<>> ELSE ConcatInst(op, n - 1) \o op[n].inst_list

RECURSIVE ConcatData(_, _)
ConcatData(op, n) ==
  IF n = 0 THEN <<>> ELSE ConcatData(op, n - 1) \o op[n].data_list

RECURSIVE ConcatFrom(_, _)
ConcatFrom(op, n) ==
  IF n = 0 THEN <<>>
  ELSE ConcatFrom(op, n - 1) \o [m \in 1..Len(op[n].inst_list) |-> n]

\* The state after data.__init__(idir = "in/", fitsfiles = 1..nf) when
\* inst.open returns op[n] for file n.  __init__ fails (inst_list[0]) when
\* no file holds any instrument; such an object does not exist.
Constructed(nf, op) ==
  /\ Len(ConcatInst(op, nf)) >= 1
  /\ idir = "in/"
  /\ fitsfiles = [n \in 1..nf |-> n]
  /\ inst_list = ConcatInst(op, nf)
  /\ data_list = ConcatData(op, nf)
  /\ from_list = ConcatFrom(op, nf)
  /\ inst = ConcatInst(op, nf)[1]
  /\ disk = [d \in Dirs |-> [f \in 1..MaxFiles |->
               IF d = "in/" /\ f <= nf THEN [exists |-> TRUE, hdus |-> <<>>]
               ELSE NoFile]]
  /\ call = "none" /\ pc = "idle" /\ odir = "" /\ sel = <<>>
  /\ sel_from = <<>> /\ i = 0 /\ j = 0 /\ Nwave = 0 /\ Nbase = 0
  /\ Ntria = 0 /\ t3mat = NoArr /\ trafo = NoArr /\ cor = NoArr
  /\ covs = <<>> /\ temp = "" /\ err = "none" /\ written = {}
  /\ idir0 = "in/"

\* Families per exposure, for the object runs: every exposure well shaped;
\* the last one short; the last one with a row too many; every one with a
\* row too many; dt3 alone with a row too many in the last exposure.
Profiles == {"ok", "short", "lastextra", "extra", "t3extra"}

FamV(prof, n, ne) ==
  CASE prof = "short" /\ n = ne -> "short"
    [] prof = "lastextra" /\ n = ne -> "extra"
    [] prof = "extra" -> "extra"
    [] OTHER -> IF n % 2 = 1 THEN "ramp" ELSE "signed"

FamT(prof, n, ne) ==
  IF prof = "t3extra" /\ n = ne THEN "extra" ELSE FamV(prof, n, ne)

ProfileData(nw, t3m, prof, ne) ==
  ExposureList(nw, t3m, [n \in 1..ne |-> FamV(prof, n, ne)],
               [n \in 1..ne |-> FamT(prof, n, ne)])

ObjData ==
  {ProfileData(g[1], g[2], prof, MaxExp) :
     g \in {<<2, Closure3>>, <<0, Closure3>>, <<1, Single>>}, prof \in Profiles}

InstSeqs == {<<>>, <<"A">>, <<"B">>, <<"A", "A">>, <<"A", "B">>}

ObjOpened == {Opened(s, d) : s \in InstSeqs, d \in ObjData}

\* Object runs: up to MaxFiles files, any instruments per file.
Init ==
  \E nf \in 1..MaxFiles : \E op \in [1..nf -> ObjOpened] : Constructed(nf, op)

\* Geometry runs: one file of one instrument; either any incidence matrix
\* of T3Mats with one well-shaped exposure, or one of three matrices with
\* any families of up to MaxExp exposures.
GeomData ==
  {ProfileData(nw, t3m, "ok", 1) : nw \in 0..MaxWave, t3m \in T3Mats}
  \cup UNION {{ExposureList(nw, t3m, fs, fs) :
                 nw \in 0..MaxWave, t3m \in {Closure3, TwoRows, Single},
                 fs \in [1..ne -> Families]} : ne \in 1..MaxExp}

InitGeom ==
  \E d \in GeomData : Constructed(1, <<Opened(<<"A">>, d)>>)

(* ------------------------------ actions -------------------------------- *)
ODirs == {"out/"}

\* The locals of the file loop as they are before any file is processed.
ClearLoop ==
  /\ sel' = <<>> /\ sel_from' = <<>> /\ i' = 0 /\ j' = 0 /\ Nwave' = 0
  /\ Nbase' = 0 /\ Ntria' = 0 /\ t3mat' = NoArr /\ trafo' = NoArr
  /\ cor' = NoArr /\ covs' = <<>>

\* The running call ends: its locals are gone.
PopFrame ==
  /\ call' = "none" /\ pc' = "idle" /\ odir' = "" /\ temp' = ""
  /\ ClearLoop

\* An exception, which nothing in the class catches: it ends add_vis2cov or
\* add_t3cov and, through it, add_cov.  The fields of the object and the
\* files stay as they are at the raise.
Raise(e) == err' = e /\ PopFrame

\* ww = np.where(np.array(self.inst_list) == self.inst)[0]
ww ==
  SelectSeq([n \in 1..Len(inst_list) |-> n], LAMBDA n : inst_list[n] = inst)

\* The head of add_vis2cov and add_t3cov, run for the call name with the
\* argument od: the data of the selected instrument, the check that there
\* are as many of them as files, and the entry of the file loop at first.
Prologue(name, od, first, tmp) ==
  IF Len(fitsfiles) # Len(ww)
  THEN Raise("UserWarning")
  ELSE /\ call' = name /\ odir' = od /\ temp' = tmp /\ err' = "none"
       /\ sel' = [n \in 1..Len(ww) |-> data_list[ww[n]]]
       /\ sel_from' = [n \in 1..Len(ww) |-> from_list[ww[n]]]
       /\ i' = 1
       /\ pc' = first
       /\ UNCHANGED fileloop

\* Every file self.idir holds has room for k more extensions.
Room(k) ==
  \A f \in 1..Len(fitsfiles) : Len(disk[idir][f].hdus) + k <= MaxHdus

\* set_inst(x)
SetInst(x) ==
  /\ pc = "idle"
  /\ written' = {}
  /\ idir0' = idir
  /\ IF x \in {inst_list[n] : n \in 1..Len(inst_list)}
     THEN inst' = x /\ err' = "none"
     ELSE inst' = inst /\ err' = "UserWarning"
  /\ UNCHANGED <<idir, object, disk, call, pc, locals>>

\* add_vis2cov(od) called by the user, up to the file loop.
CallAddVis2cov(od) ==
  /\ pc = "idle"
  /\ Room(1)
  /\ written' = {}
  /\ idir0' = idir
  /\ Prologue("add_vis2cov", od, "vis2_file", "")
  /\ UNCHANGED <<idir, inst, object, disk>>

\* add_t3cov(od) called by the user, up to the file loop.
CallAddT3cov(od) ==
  /\ pc = "idle"
  /\ Room(1)
  /\ written' = {}
  /\ idir0' = idir
  /\ Prologue("add_t3cov", od, "t3_file", "")
  /\ UNCHANGED <<idir, inst, object, disk>>

\* add_cov(od) up to the file loop of the add_vis2cov it calls.
CallAddCov(od) ==
  /\ pc = "idle"
  /\ Room(2)
  /\ written' = {}
  /\ idir0' = idir
  /\ Prologue("add_cov", od, "vis2_file", "")
  /\ UNCHANGED <<idir, inst, object, disk>>

\* The file loop of add_vis2cov, before the exposures of file i.
Vis2File ==
  /\ pc = "vis2_file"
  /\ IF Len(sel[i]) = 0
     THEN Raise("IndexError")
     ELSE LET nw == sel[i][1].wave
              nb == sel[i][1].vis2
          IN  /\ Nwave' = nw
              /\ Nbase' = nb
              /\ cor' = Vis2Cor(nw, nb)
              /\ covs' = <<>>
              /\ j' = 1
              /\ pc' = "vis2_exp"
              /\ UNCHANGED <<call, odir, temp, sel, sel_from, i, Ntria, t3mat,
                             trafo, err>>
  /\ UNCHANGED <<idir, inst, object, disk, written, idir0>>

\* The file loop of add_t3cov, before the exposures of file i.
T3File ==
  /\ pc = "t3_file"
  /\ IF Len(sel[i]) = 0
     THEN Raise("IndexError")
     ELSE LET t3m == sel[i][1].t3mat
              nw == sel[i][1].wave
              tr == BuildTrafo(t3m, nw)
          IN  /\ t3mat' = t3m
              /\ Nwave' = nw
              /\ Nbase' = NCols(t3m)
              /\ Ntria' = NRows(t3m)
              /\ trafo' = tr
              /\ cor' = T3Cor(tr, nw, NCols(t3m))
              /\ covs' = <<>>
              /\ j' = 1
              /\ pc' = "t3_exp"
              /\ UNCHANGED <<call, odir, temp, sel, sel_from, i, err>>
  /\ UNCHANGED <<idir, inst, object, disk, written, idir0>>

\* One pass of the exposure loop: the covariance of exposure j from its
\* uncertainty array u; after the last exposure the loop is left for next.
ExposureStep(u, next) ==
  LET cov == ExposureCov(cor, u)
  IN  /\ IF cov = ValueError
         THEN Raise("ValueError")
         ELSE /\ covs' = Append(covs, cov)
              /\ IF j = Len(sel[i])
                 THEN pc' = next /\ j' = j
                 ELSE pc' = pc /\ j' = j + 1
              /\ UNCHANGED <<call, odir, temp, sel, sel_from, i, Nwave, Nbase,
                             Ntria, t3mat, trafo, cor, err>>
      /\ UNCHANGED <<idir, inst, object, disk, written, idir0>>

Vis2Exp == pc = "vis2_exp" /\ ExposureStep(sel[i][j].dvis2, "vis2_write")

T3Exp == pc = "t3_exp" /\ ExposureStep(sel[i][j].dt3, "t3_write")

\* The end of add_vis2cov or add_t3cov: back in add_cov at back when add_cov
\* made the call, and back with the user otherwise.
Return(back) ==
  IF call = "add_cov"
  THEN pc' = back /\ ClearLoop /\ UNCHANGED <<call, odir, temp>>
  ELSE PopFrame

\* The end of one pass of the file loop: the stack of the file's matrices
\* is appended, as extension extname, to the file read from self.idir and
\* the result is written to odir.
WriteStep(extname, again, back) ==
  LET f == fitsfiles[i]
  IN  /\ IF ~Stackable(covs)
         THEN Raise("ValueError") /\ UNCHANGED <<disk, written>>
         ELSE IF ~disk[idir][f].exists
         THEN Raise("FileNotFoundError") /\ UNCHANGED <<disk, written>>
         ELSE /\ disk' = [disk EXCEPT ![odir][f] =
                    [exists |-> TRUE,
                     hdus |-> Append(disk[idir][f].hdus,
                                     [EXTNAME |-> extname, INSNAME |-> inst,
                                      data |-> covs])]]
              /\ written' = written \cup {f}
              /\ err' = err
              /\ IF i = Len(fitsfiles)
                 THEN Return(back)
                 ELSE /\ i' = i + 1
                      /\ pc' = again
                      /\ UNCHANGED <<call, odir, temp, sel, sel_from, fileloop>>
      /\ UNCHANGED <<idir, inst, object, idir0>>

Vis2Write == pc = "vis2_write" /\ WriteStep("VIS2COV", "vis2_file", "cov_swap")

T3Write == pc = "t3_write" /\ WriteStep("T3COV", "t3_file", "cov_restore")

\* add_cov between its two calls: temp = self.idir, self.idir = odir, and
\* the head of add_t3cov.
CovSwap ==
  /\ pc = "cov_swap"
  /\ idir' = odir
  /\ Prologue("add_cov", odir, "t3_file", idir)
  /\ UNCHANGED <<inst, object, disk, written, idir0>>

\* add_cov after add_t3cov has returned: self.idir = temp.
CovRestore ==
  /\ pc = "cov_restore"
  /\ idir' = temp
  /\ err' = err
  /\ PopFrame
  /\ UNCHANGED <<inst, object, disk, written, idir0>>

Next ==
  \/ \E x \in Instruments : SetInst(x)
  \/ \E od \in ODirs : CallAddVis2cov(od)
  \/ \E od \in ODirs : CallAddT3cov(od)
  \/ \E od \in ODirs : CallAddCov(od)
  \/ Vis2File
  \/ Vis2Exp
  \/ Vis2Write
  \/ T3File
  \/ T3Exp
  \/ T3Write
  \/ CovSwap
  \/ CovRestore

Spec == Init /\ [][Next]_vars

SpecGeom == InitGeom /\ [][Next]_vars

(* ------------------------------ claims --------------------------------- *)
InVis2 == pc \in {"vis2_exp", "vis2_write"}

InT3 == pc \in {"t3_exp", "t3_write"}

InLoop == pc \in {"vis2_file", "vis2_exp", "vis2_write",
                  "t3_file", "t3_exp", "t3_write"}

\* The flattened uncertainty array covs[n] was computed from.
UFlat(n) == flatten(IF InVis2 THEN sel[i][n].dvis2 ELSE sel[i][n].dt3)

\* The size the file declares: Nwave*Nbase resp. Nwave*Ntria.
Declared == IF InVis2 THEN Nwave * Nbase ELSE Nwave * Ntria

Min(x, y) == IF x < y THEN x ELSE y

RECURSIVE SumTo(_, _)
SumTo(f, n) == IF n = 0 THEN 0 ELSE f[n] + SumTo(f, n - 1)

\* sum over l of t3mat[k][l] * t3mat[m][l]
RowDot(k, m) ==
  SumTo([l \in 1..Nbase |-> t3mat.v[k][l] * t3mat.v[m][l]], Nbase)

\* The triangle of the flattened index a (1-based).
TriaOf(a) == ((a - 1) \div Nwave) + 1

\* Row k of t3mat has exactly three nonzero entries, each of magnitude 1.
ThreeUnit(k) ==
  /\ Cardinality({l \in 1..Nbase : t3mat.v[k][l] # 0}) = 3
  /\ \A l \in 1..Nbase : t3mat.v[k][l] \in {-1, 0, 1}

\* C1 as stated: in add_vis2cov and in add_t3cov, for every exposure and
\* every flattened index, the diagonal of the covariance is the square of
\* the uncertainty, whatever the incidence matrix.
C1_DiagIsVariance ==
  (InVis2 \/ InT3) =>
    \A n \in 1..Len(covs) : \A a \in 1..Min(Len(UFlat(n)), Declared) :
      covs[n].v[a][a] = RInt(UFlat(n)[a] * UFlat(n)[a])

\* C1 as amended: the diagonal is the square of the uncertainty in
\* add_vis2cov; in add_t3cov it is that square times a third of the sum of
\* the squares of the triangle's row of t3mat, hence the square itself
\* exactly when those squares sum to 3 (three entries of magnitude 1).
C1_DiagScaledByRow ==
  /\ InVis2 =>
       \A n \in 1..Len(covs) : \A a \in 1..Min(Len(UFlat(n)), Declared) :
         covs[n].v[a][a] = RInt(UFlat(n)[a] * UFlat(n)[a])
  /\ InT3 =>
       \A n \in 1..Len(covs) : \A a \in 1..Min(Len(UFlat(n)), Declared) :
         LET u2 == UFlat(n)[a] * UFlat(n)[a]
             sq == RowDot(TriaOf(a), TriaOf(a))
         IN  /\ covs[n].v[a][a] = Frac(sq * u2, 3)
             /\ (covs[n].v[a][a] = RInt(u2)) <=> (sq = 3 \/ u2 = 0)
             /\ ThreeUnit(TriaOf(a)) => covs[n].v[a][a] = RInt(u2)

\* C1's case: add_t3cov has produced, from nonzero uncertainties over
\* several channels, the covariance of a triangle whose row has three unit
\* entries and of a triangle whose row has not.
C1_Witness ==
  /\ InT3 /\ Len(covs) >= 1 /\ Nwave >= 2 /\ Ntria >= 2
  /\ Len(UFlat(1)) = Declared
  /\ ThreeUnit(1) /\ RowDot(2, 2) # 3
  /\ \A a \in 1..Declared : UFlat(1)[a] # 0

\* C2: trafo has shape (Nwave*Ntria, Nwave*Nbase) and its block (k, l) is
\* t3mat[k][l] times the Nwave identity.
C2_TrafoIsKronecker ==
  InT3 =>
    /\ trafo.shape = <<Nwave * Ntria, Nwave * Nbase>>
    /\ \A k \in 0..(Ntria - 1), l \in 0..(Nbase - 1) :
         \A a \in 0..(Nwave - 1), b \in 0..(Nwave - 1) :
           trafo.v[k * Nwave + a + 1][l * Nwave + b + 1] =
             IF a = b THEN t3mat.v[k + 1][l + 1] ELSE 0

\* C2's case: a transform of several triangles, baselines and channels
\* built from a matrix with entries of both signs.
C2_Witness ==
  /\ InT3 /\ Nwave >= 2 /\ Ntria >= 2 /\ Nbase >= 3
  /\ \E k \in 1..Ntria, l \in 1..Nbase : t3mat.v[k][l] = -1
  /\ \E k \in 1..Ntria, l \in 1..Nbase : t3mat.v[k][l] = 1

\* The baselines two triangles share.
Shared(k, m) == {l \in 1..Nbase : t3mat.v[k][l] # 0 /\ t3mat.v[m][l] # 0}

\* C3: when every row of t3mat has exactly three unit entries, cor between
\* (k, a) and (m, b) is a third of the rows' product at equal channels and
\* 0 at different channels; its diagonal is 1, and two triangles sharing
\* exactly one baseline, with one sign, have 1/3 at equal channels.
C3_CorFromSharedBaselines ==
  (InT3 /\ \A k \in 1..Ntria : ThreeUnit(k)) =>
    /\ cor.shape = <<Nwave * Ntria, Nwave * Ntria>>
    /\ \A k \in 0..(Ntria - 1), m \in 0..(Ntria - 1) :
         \A a \in 0..(Nwave - 1), b \in 0..(Nwave - 1) :
           LET c == cor.v[k * Nwave + a + 1][m * Nwave + b + 1]
           IN  /\ c = IF a = b THEN Frac(RowDot(k + 1, m + 1), 3) ELSE RInt(0)
               /\ (k = m /\ a = b) => c = RInt(1)
               /\ (/\ a = b
                   /\ Cardinality(Shared(k + 1, m + 1)) = 1
                   /\ RowDot(k + 1, m + 1) = 1) => c = <<1, 3>>

\* C3's case: two triangles of three unit entries each that share exactly
\* one baseline with one sign, over several channels.
C3_Witness ==
  /\ InT3 /\ Nwave >= 2 /\ Ntria >= 2
  /\ \A k \in 1..Ntria : ThreeUnit(k)
  /\ Cardinality(Shared(1, 2)) = 1 /\ RowDot(1, 2) = 1
  /\ cor.v[1][Nwave + 1] = <<1, 3>>

\* C4: in add_vis2cov the covariance of an exposure whose flattened dvis2
\* has the declared length is diagonal, with the squares on the diagonal.
C4_Vis2CovDiagonal ==
  InVis2 =>
    \A n \in 1..Len(covs) :
      Len(UFlat(n)) = Nwave * Nbase =>
        /\ covs[n].shape = <<Nwave * Nbase, Nwave * Nbase>>
        /\ \A a \in 1..(Nwave * Nbase), b \in 1..(Nwave * Nbase) :
             covs[n].v[a][b] =
               IF a = b THEN RInt(UFlat(n)[a] * UFlat(n)[a]) ELSE RInt(0)

\* C4's case: a covariance over several baselines and channels from
\* uncertainties among which are a zero, a negative and a positive one.
C4_Witness ==
  /\ InVis2 /\ Len(covs) >= 1 /\ Nwave >= 2 /\ Nbase >= 2
  /\ Len(UFlat(Len(covs))) = Nwave * Nbase
  /\ \E a \in 1..(Nwave * Nbase) : UFlat(Len(covs))[a] = 0
  /\ \E a \in 1..(Nwave * Nbase) : UFlat(Len(covs))[a] < 0
  /\ \E a \in 1..(Nwave * Nbase) : UFlat(Len(covs))[a] > 0

\* C5: no covariance matrix is produced for an exposure whose flattened
\* uncertainty array has not the length the file declares.
C5_MismatchNeverProduces ==
  (InVis2 \/ InT3) =>
    \A n \in 1..Len(covs) : Len(UFlat(n)) = Declared

\* C6: the transform and the correlation are never built, and no stack is
\* written, for a file one of whose declared dimensions is zero.
C6_ZeroDimensionFails ==
  /\ InT3 => (Nwave >= 1 /\ Ntria >= 1 /\ Nbase >= 1)
  /\ InVis2 => Nwave * Nbase >= 1
  /\ InLoop =>
       \A n \in 1..Len(sel) :
         fitsfiles[n] \in written =>
           /\ sel[n][1].wave >= 1
           /\ pc \in {"vis2_file", "vis2_exp", "vis2_write"} =>
                sel[n][1].vis2 >= 1
           /\ pc \in {"t3_file", "t3_exp", "t3_write"} =>
                (NRows(sel[n][1].t3mat) >= 1 /\ NCols(sel[n][1].t3mat) >= 1)

\* C7: when a shape violation is raised, the call has written no file.
C7_NoPartialOutput == err = "ValueError" => written = {}

\* C8: the stack about to be written for a file has one matrix per
\* exposure, each of the size the file declares.
C8_StackShape ==
  ((InVis2 \/ InT3) /\ pc \in {"vis2_write", "t3_write"} /\ Stackable(covs)
     /\ disk[idir][fitsfiles[i]].exists) =>
    /\ Len(covs) = Len(sel[i])
    /\ \A n \in 1..Len(covs) : covs[n].shape = <<Declared, Declared>>

\* C9: the file loop is entered only when every file holds data of the
\* selected instrument, and file n is then processed with data opened
\* from file n.
C9_DataFromOwnFile ==
  InLoop =>
    /\ \A f \in 1..Len(fitsfiles) :
         \E n \in 1..Len(inst_list) : inst_list[n] = inst /\ from_list[n] = f
    /\ \A n \in 1..Len(sel) : sel_from[n] = fitsfiles[n]

\* C10: self.idir is what it was before the call whenever no call runs, and
\* differs from it only inside add_cov's call of add_t3cov, where it is odir.
C10_IdirRestored ==
  /\ pc = "idle" => idir = idir0
  /\ idir # idir0 =>
       /\ call = "add_cov" /\ idir = odir
       /\ pc \in {"t3_file", "t3_exp", "t3_write", "cov_restore"}

====
